---- MODULE Spec2Model ----
(***************************************************************************)
(* scout-xcode: a worker that polls an SQS queue for transcode requests,   *)
(* checks whether the opus artifact is already in the S3 bucket,           *)
(* transcodes with ffmpeg, uploads the result and deletes the message.     *)
(*                                                                         *)
(* The model follows src/index.js callback by callback.  The services the  *)
(* program talks to (SQS, S3, ffmpeg, the file system) are the             *)
(* environment: each of their answers is a nondeterministic choice.        *)
(***************************************************************************)
EXTENDS Integers, Sequences, FiniteSets, TLC

(***************************************************************************)
(* Bounds of the model.                                                    *)
(***************************************************************************)
\* Total number of deliveries (pipeline instances) explored.
MaxInst == 3

\* Number of SqsQueue.add calls explored.
MaxAdd == 3

\* src/index.js:24
QUEUE_RETRY_COUNT == 3

\* The primary queue holds one request; it is delivered up to MaxInst times.
Msgs == {1}
Insts == 1..MaxInst

(***************************************************************************)
(* Strings are sequences of one-character strings.                         *)
(***************************************************************************)
MP3 == <<"m", "p", "3">>
OPUS == <<"o", "p", "u", "s">>
F_a == <<"a", ".", "m", "p", "3">>
F_da == <<"d", "/", "a", ".", "m", "p", "3">>

\* Index of the first occurrence of pat in s at or after position k, 0 if none.
RECURSIVE IndexOf(_, _, _)
IndexOf(s, pat, k) ==
    IF k + Len(pat) - 1 > Len(s) THEN 0
    ELSE IF SubSeq(s, k, k + Len(pat) - 1) = pat THEN k
    ELSE IndexOf(s, pat, k + 1)

\* String.prototype.replace with a string pattern: the first occurrence only.
Replace(s, pat, rep) ==
    LET k == IndexOf(s, pat, 1)
    IN  IF k = 0 THEN s
        ELSE SubSeq(s, 1, k - 1) \o rep \o SubSeq(s, k + Len(pat), Len(s))

\* filename.replace('mp3', 'opus'), the key checkFileExistence queries.
HeadKey(filename) == Replace(filename, MP3, OPUS)

\* './' + jsonBody.filename.replace('mp3', 'opus'), the local output path.
OutputName(filename) == <<".", "/">> \o Replace(filename, MP3, OPUS)

RECURSIVE StripTrailingSlashes(_)
StripTrailingSlashes(s) ==
    IF Len(s) > 1 /\ s[Len(s)] = "/" THEN StripTrailingSlashes(SubSeq(s, 1, Len(s) - 1))
    ELSE s

RECURSIVE LastSlash(_, _)
LastSlash(s, k) ==
    IF k = 0 THEN 0
    ELSE IF s[k] = "/" THEN k
    ELSE LastSlash(s, k - 1)

\* path.basename: what follows the last separator, trailing separators dropped.
Basename(p) ==
    LET s == StripTrailingSlashes(p)
    IN  SubSeq(s, LastSlash(s, Len(s)) + 1, Len(s))

\* bucketParams.Key of storeFile.
UploadKey(opusFilename) == Basename(opusFilename)

(***************************************************************************)
(* Message bodies.  parses: JSON.parse succeeds; hasFilename: the parsed   *)
(* object has a filename property; filename: its value.                    *)
(***************************************************************************)
Body(p, h, f) == [parses |-> p, hasFilename |-> h, filename |-> f]

Bodies ==
    { Body(FALSE, FALSE, <<>>),
      Body(TRUE, FALSE, <<>>),
      Body(TRUE, TRUE, <<>>),
      Body(TRUE, TRUE, F_a),
      Body(TRUE, TRUE, F_da) }


\* The message format check of receiveMessage: JSON.parse must not throw and
\* jsonBody.filename must be truthy.
ValidMessageParseOnly(body) == body.parses

ValidMessage(body) ==
    body.parses /\ body.hasFilename /\ body.filename # <<>>

VARIABLES
    queueURL,        \* process.env.SQS_QUEUE is set
    dlqArn,          \* process.env.SQS_DLQ_ARN is set
    pcMain,          \* startup: "init", "waiting", "resolved", "rejected", "loop"
    redrive,         \* the setQueueAttributes call: "none", "pending", "ok", "err"
    recvOutstanding, \* sqs.receiveMessage calls whose callback has not run
    timers,          \* setTimeout(receiveMessage, 0) timers not yet fired
    recvEpoch,       \* parity of the number of receive calls issued
    body,            \* body of each message in the primary queue
    qstate,          \* each message: "visible", "inflight", "deleted", "dlq"
    rcvCount,        \* ApproximateReceiveCount of each message
    store,           \* keys present in the bucket
    localFiles,      \* paths present in the working directory
    sent,            \* records accepted by sqs.sendMessage (SqsQueue.add)
    adds,            \* the calls of SqsQueue.add
    nInst,           \* pipeline instances started so far
    inst             \* the pipeline instances

vars == <<queueURL, dlqArn, pcMain, redrive, recvOutstanding, timers, recvEpoch,
          body, qstate, rcvCount, store, localFiles, sent, adds, nInst, inst>>

envVars == <<queueURL, dlqArn, body>>
startVars == <<pcMain, redrive>>
loopVars == <<recvOutstanding, timers, recvEpoch>>
queueVars == <<qstate, rcvCount>>
fileVars == <<store, localFiles>>
instVars == <<nInst, inst>>
sendVars == <<sent, adds>>

\* One pipeline instance.  called: the operations it has invoked; logged: the
\* errors it has passed to logger.error; exists: the result of
\* checkFileExistence; xcode, up: the promises of transcodeFile and storeFile;
\* unhandled: rejections that reached no handler (the runtime reports them
\* and the process goes on); unlinks: calls of fs.unlink.
IdleInst ==
    [pc |-> "idle", msg |-> 0, called |-> {}, logged |-> {},
     exists |-> "unknown", xcode |-> "none", up |-> "none", unhandled |-> 0,
     unlinks |-> 0]

Init ==
    /\ queueURL \in BOOLEAN
    /\ dlqArn \in BOOLEAN
    /\ pcMain = "init"
    /\ redrive = "none"
    /\ recvOutstanding = 0
    /\ timers = 0
    /\ recvEpoch = 0
    /\ body \in [Msgs -> Bodies]
    /\ qstate = [m \in Msgs |-> "visible"]
    /\ rcvCount = [m \in Msgs |-> 0]
    /\ store \in SUBSET {HeadKey(body[m].filename) : m \in {n \in Msgs : ValidMessage(body[n])}}
    /\ localFiles = {}
    /\ sent = <<>>
    /\ adds = <<>>
    /\ nInst = 0
    /\ inst = [i \in Insts |-> IdleInst]


(***************************************************************************)
(* Startup: initQueue() and the two handlers of its promise.               *)
(***************************************************************************)
\* State of initQueue's promise when its executor returns.
InitQueueNextOptionalDlq(dlq) == IF dlq THEN "waiting" ELSE "resolved"

InitQueueNextNoWait(dlq) == IF dlq THEN "resolved" ELSE "rejected"

InitQueueNext(dlq) == IF dlq THEN "waiting" ELSE "rejected"

\* initQueue: issues setQueueAttributes when SQS_DLQ_ARN is set, rejects
\* otherwise.  SQS_QUEUE is not looked at.
InitQueue ==
    /\ pcMain = "init"
    /\ pcMain' = InitQueueNext(dlqArn)
    /\ redrive' = IF dlqArn THEN "pending" ELSE "none"
    /\ UNCHANGED <<envVars, loopVars, queueVars, fileVars, sendVars, instVars>>

\* The setQueueAttributes callback: logs the error or the success, then
\* resolve().  Without a QueueUrl the request cannot succeed.
SetQueueAttributesCallback(err) ==
    /\ redrive = "pending"
    /\ ~queueURL => err
    /\ redrive' = IF err THEN "err" ELSE "ok"
    /\ pcMain' = IF pcMain = "waiting" THEN "resolved" ELSE pcMain
    /\ UNCHANGED <<envVars, loopVars, queueVars, fileVars, sendVars, instVars>>

\* initQueue().then(() => receiveMessage(), error => logger.error(error)):
\* the fulfilment handler issues the first receive; the rejection handler
\* only logs, so "rejected" is a final state of startup.
StartLoop ==
    /\ pcMain = "resolved"
    /\ pcMain' = "loop"
    /\ recvOutstanding' = recvOutstanding + 1
    /\ recvEpoch' = 1 - recvEpoch
    /\ UNCHANGED <<envVars, redrive, timers, queueVars, fileVars, sendVars, instVars>>

(***************************************************************************)
(* The poll loop: the callback of sqs.receiveMessage.                      *)
(***************************************************************************)
\* What the callback does about the next receive: "direct" is the
\* receiveMessage() after the forEach, "timer" the setTimeout of the else
\* branch.
NextAfterReceiveStopOnErr(outcome) ==
    IF outcome = "msg" THEN "direct"
    ELSE IF outcome = "err" THEN "none" ELSE "timer"

NextAfterReceiveWait(outcome) == IF outcome = "msg" THEN "none" ELSE "timer"

NextAfterReceiveBoth(outcome) == IF outcome = "msg" THEN "both" ELSE "timer"

NextAfterReceive(outcome) == IF outcome = "msg" THEN "direct" ELSE "timer"

Reissue(outcome) ==
    LET n == NextAfterReceive(outcome)
    IN  /\ recvOutstanding' = recvOutstanding - 1 + (IF n \in {"direct", "both"} THEN 1 ELSE 0)
        /\ timers' = timers + (IF n \in {"timer", "both"} THEN 1 ELSE 0)
        /\ recvEpoch' = IF n \in {"direct", "both"} THEN 1 - recvEpoch ELSE recvEpoch

\* err is set, data is not: the error is logged, the else branch runs.
ReceiveErr ==
    /\ recvOutstanding > 0
    /\ Reissue("err")
    /\ UNCHANGED <<envVars, startVars, queueVars, fileVars, sendVars, instVars>>

\* The long poll ends with no message: data has no Messages.
ReceiveEmpty ==
    /\ recvOutstanding > 0
    /\ queueURL
    /\ Reissue("empty")
    /\ UNCHANGED <<envVars, startVars, queueVars, fileVars, sendVars, instVars>>

\* Message m is delivered (MaxNumberOfMessages is 1).  The forEach callback
\* runs up to its first await: it validates the body and, when the body is
\* valid, calls checkFileExistence.
ReceiveMsg(m) ==
    /\ recvOutstanding > 0
    /\ queueURL
    /\ nInst < MaxInst
    /\ qstate[m] = "visible"
    /\ ~(redrive = "ok" /\ rcvCount[m] >= QUEUE_RETRY_COUNT)
    /\ qstate' = [qstate EXCEPT ![m] = "inflight"]
    /\ rcvCount' = [rcvCount EXCEPT ![m] = @ + 1]
    /\ nInst' = nInst + 1
    /\ inst' = [inst EXCEPT ![nInst + 1] =
                  IF ValidMessage(body[m])
                  THEN [IdleInst EXCEPT !.pc = "check", !.msg = m,
                                        !.called = {"check"}]
                  ELSE [IdleInst EXCEPT !.pc = "done", !.msg = m,
                                        !.logged = {"format"}]]
    /\ Reissue("msg")
    /\ UNCHANGED <<envVars, startVars, fileVars, sendVars>>

\* The timer of the else branch fires: receiveMessage().
TimerFire ==
    /\ timers > 0
    /\ timers' = timers - 1
    /\ recvOutstanding' = recvOutstanding + 1
    /\ recvEpoch' = 1 - recvEpoch
    /\ UNCHANGED <<envVars, startVars, queueVars, fileVars, sendVars, instVars>>

(***************************************************************************)
(* The queue service.                                                      *)
(***************************************************************************)
\* VisibilityTimeout (20 s) elapses on a message that was not deleted.
VisibilityTimeout(m) ==
    /\ qstate[m] = "inflight"
    /\ qstate' = [qstate EXCEPT ![m] = "visible"]
    /\ UNCHANGED <<envVars, startVars, loopVars, rcvCount, fileVars, sendVars, instVars>>

\* The redrive policy: a message received maxReceiveCount times and still
\* not deleted is moved to the dead letter queue.
MoveToDlq(m) ==
    /\ redrive = "ok"
    /\ qstate[m] = "visible"
    /\ rcvCount[m] >= QUEUE_RETRY_COUNT
    /\ qstate' = [qstate EXCEPT ![m] = "dlq"]
    /\ UNCHANGED <<envVars, startVars, loopVars, rcvCount, fileVars, sendVars, instVars>>

(***************************************************************************)
(* The pipeline of one delivery, from the await of checkFileExistence on.  *)
(***************************************************************************)
Filename(i) == body[inst[i].msg].filename

\* The branch taken on the result of checkFileExistence.
BranchAlwaysTranscode(fileExists) == "transcode"

Branch(fileExists) == IF fileExists THEN "remove" ELSE "transcode"

\* checkFileExistence: true when headObject resolves, false when it rejects,
\* whatever the reason.
FileExistsUnlessNotFound(head) == head # "notfound"

FileExistsAlways(head) == TRUE

FileExists(head) == head = "ok"

\* The value of messageProcessed when it is tested at the end of the forEach
\* callback: set on the fileExists branch only (the assignment in the then
\* handler runs after the test).
MessageProcessedAtTestAlways(fileExists) == TRUE

MessageProcessedAtTest(fileExists) == fileExists

\* storeFile calls fs.unlink in the success branch of the upload callback.
UnlinkAttemptedOnAny(err) == TRUE

UnlinkAttemptedOn(err) == ~err

\* A promise's then(onFulfilled) runs onFulfilled on fulfilment only.
StoreInvokedOnSettled(result) == result \in {"resolved", "rejected"}

StoreInvokedOn(result) == result = "resolved"

\* removeFromQueue: sqs.deleteMessage; its callback only logs.
DeleteMessage(m, delOk) ==
    qstate' = IF delOk /\ qstate[m] \in {"visible", "inflight"}
              THEN [qstate EXCEPT ![m] = "deleted"]
              ELSE qstate

\* checkFileExistence returns and the forEach callback runs to its end.
\* head is the outcome of headObject: "ok" (the key is in the bucket),
\* "notfound" (it is not), or "error" (the query fails though the key is
\* there; a failure with the key absent is taken as "notfound", the catch
\* block does not look at the error).  throws: building the ffmpeg
\* job throws inside transcodeFile, which logs and rejects.
ExistenceChecked(i, head, throws, delOk) ==
    /\ inst[i].pc = "check"
    /\ head = "ok" => (Filename(i) # <<>> /\ HeadKey(Filename(i)) \in store)
    /\ head = "notfound" => (Filename(i) = <<>> \/ HeadKey(Filename(i)) \notin store)
    /\ head = "error" => (Filename(i) # <<>> /\ HeadKey(Filename(i)) \in store)
    /\ LET fileExists == Filename(i) # <<>> /\ FileExists(head)
           xcodes == Branch(fileExists) = "transcode"
           removes == MessageProcessedAtTest(fileExists)
       IN  /\ inst' = [inst EXCEPT
                  ![i].exists = IF fileExists THEN "yes" ELSE "no",
                  ![i].called = @ \cup (IF xcodes THEN {"transcode"} ELSE {})
                                  \cup (IF removes THEN {"remove"} ELSE {}),
                  ![i].pc = IF xcodes /\ ~throws THEN "transcoding" ELSE "done",
                  ![i].xcode = IF ~xcodes THEN @
                               ELSE IF throws THEN "rejected" ELSE "pending",
                  ![i].logged = IF xcodes /\ throws THEN @ \cup {"transcode"} ELSE @,
                  ![i].unhandled = IF xcodes /\ throws THEN @ + 1 ELSE @]
           /\ IF removes THEN DeleteMessage(inst[i].msg, delOk)
              ELSE UNCHANGED qstate
    /\ UNCHANGED <<envVars, startVars, loopVars, rcvCount, fileVars, sendVars, nInst>>

\* ffmpeg 'end': resolve(outputName); the then handler calls storeFile.
TranscodeEnd(i) ==
    /\ inst[i].pc = "transcoding"
    /\ localFiles' = localFiles \cup {OutputName(Filename(i))}
    /\ inst' = [inst EXCEPT
          ![i].xcode = "resolved",
          ![i].pc = IF StoreInvokedOn("resolved") THEN "uploading" ELSE "done",
          ![i].called = IF StoreInvokedOn("resolved") THEN @ \cup {"store"} ELSE @,
          ![i].up = IF StoreInvokedOn("resolved") THEN "pending" ELSE @]
    /\ UNCHANGED <<envVars, startVars, loopVars, queueVars, store, sendVars, nInst>>

\* ffmpeg 'error': logged, reject(err).  The promise returned by then() has
\* no rejection handler.  A partial output file may be left behind.
TranscodeError(i, partial) ==
    /\ inst[i].pc = "transcoding"
    /\ localFiles' = IF partial THEN localFiles \cup {OutputName(Filename(i))}
                     ELSE localFiles
    /\ inst' = [inst EXCEPT
          ![i].xcode = "rejected",
          ![i].logged = @ \cup {"transcode"},
          ![i].pc = IF StoreInvokedOn("rejected") THEN "uploading" ELSE "done",
          ![i].called = IF StoreInvokedOn("rejected") THEN @ \cup {"store"} ELSE @,
          ![i].up = IF StoreInvokedOn("rejected") THEN "pending" ELSE @,
          ![i].unhandled = IF StoreInvokedOn("rejected") THEN @ ELSE @ + 1]
    /\ UNCHANGED <<envVars, startVars, loopVars, queueVars, store, sendVars, nInst>>

\* The read stream of storeFile emits 'error': reject(err), nothing logged.
\* The promise of storeFile is dropped by its caller.
StreamError(i) ==
    /\ inst[i].pc = "uploading"
    /\ inst[i].up = "pending"
    /\ inst' = [inst EXCEPT ![i].up = "rejected", ![i].unhandled = @ + 1]
    /\ UNCHANGED <<envVars, startVars, loopVars, queueVars, fileVars, sendVars, nInst>>

\* The s3.upload callback with an error: logged, reject(err).
UploadFailed(i) ==
    /\ inst[i].pc = "uploading"
    /\ inst' = [inst EXCEPT
          ![i].pc = "done",
          ![i].logged = @ \cup {"upload"},
          ![i].up = "rejected",
          ![i].unlinks = IF UnlinkAttemptedOn(TRUE) THEN @ + 1 ELSE @,
          ![i].unhandled = IF inst[i].up = "pending" THEN @ + 1 ELSE @]
    /\ UNCHANGED <<envVars, startVars, loopVars, queueVars, fileVars, sendVars, nInst>>

\* The s3.upload callback without an error: resolve(), then fs.unlink, whose
\* callback only logs.
UploadSucceeded(i, unlinkOk) ==
    /\ inst[i].pc = "uploading"
    /\ inst[i].up = "pending"
    /\ unlinkOk => OutputName(Filename(i)) \in localFiles
    /\ store' = store \cup {UploadKey(OutputName(Filename(i)))}
    /\ localFiles' = IF unlinkOk THEN localFiles \ {OutputName(Filename(i))}
                     ELSE localFiles
    /\ inst' = [inst EXCEPT
          ![i].pc = "done",
          ![i].up = "resolved",
          ![i].unlinks = IF UnlinkAttemptedOn(FALSE) THEN @ + 1 ELSE @,
          ![i].logged = IF unlinkOk THEN @ ELSE @ \cup {"unlink"}]
    /\ UNCHANGED <<envVars, startVars, loopVars, queueVars, sendVars, nInst>>

Next ==
    \/ InitQueue
    \/ \E err \in BOOLEAN : SetQueueAttributesCallback(err)
    \/ StartLoop
    \/ ReceiveErr
    \/ ReceiveEmpty
    \/ \E m \in Msgs : ReceiveMsg(m)
    \/ TimerFire
    \/ \E m \in Msgs : VisibilityTimeout(m)
    \/ \E m \in Msgs : MoveToDlq(m)
    \/ \E i \in Insts, head \in {"ok", "notfound", "error"}, throws, delOk \in BOOLEAN :
          ExistenceChecked(i, head, throws, delOk)
    \/ \E i \in Insts : TranscodeEnd(i)
    \/ \E i \in Insts, partial \in BOOLEAN : TranscodeError(i, partial)
    \/ \E i \in Insts : StreamError(i)
    \/ \E i \in Insts : UploadFailed(i)
    \/ \E i \in Insts, unlinkOk \in BOOLEAN : UploadSucceeded(i, unlinkOk)

Spec == Init /\ [][Next]_vars

\* Every SQS call gets its callback (the SDK answers or times out; the long
\* poll lasts at most WaitTimeSeconds) and a 0 ms timer fires.
ReceiveCallback == ReceiveErr \/ ReceiveEmpty \/ \E m \in Msgs : ReceiveMsg(m)

FairSpec ==
    /\ Spec
    /\ WF_vars(\E err \in BOOLEAN : SetQueueAttributesCallback(err))
    /\ WF_vars(StartLoop)
    /\ WF_vars(ReceiveCallback)
    /\ WF_vars(TimerFire)

(***************************************************************************)
(* SqsQueue (src/unnamed/part_000): the class that publishes a message     *)
(* object to a FIFO queue.  index.js never constructs it, so its calls are *)
(* explored on their own, with the worker not started.                     *)
(***************************************************************************)
\* The objects handed to add: records about a message and its error.
AddObjs ==
    { [message |-> 1, error |-> "transcode"],
      [message |-> 1, error |-> "upload"] }

\* this.groupId of the queue object.
GroupId == "failures"

\* The state of add's promise after the sendMessage callback: on an error
\* reject() runs first, so the resolve() that follows changes nothing.
AddSettlesSwallow(err) == "resolved"

AddSettles(err) == IF err THEN "rejected" ELSE "resolved"

\* add(messageObj): builds the params (a fresh MessageDeduplicationId, the
\* group id, the serialized object) and calls sqs.sendMessage.
Add(obj) ==
    /\ Len(adds) < MaxAdd
    /\ adds' = Append(adds, [obj |-> obj, dedup |-> Len(adds) + 1,
                             send |-> "pending", promise |-> "pending"])
    /\ UNCHANGED <<envVars, startVars, loopVars, queueVars, fileVars, sent, instVars>>

\* The sendMessage callback of call k.
SendMessageCallback(k, err) ==
    /\ k \in DOMAIN adds
    /\ adds[k].send = "pending"
    /\ adds' = [adds EXCEPT ![k].send = IF err THEN "err" ELSE "ok",
                            ![k].promise = AddSettles(err)]
    /\ sent' = IF err THEN sent
               ELSE Append(sent, [message |-> adds[k].obj.message,
                                  error |-> adds[k].obj.error,
                                  group |-> GroupId,
                                  dedup |-> adds[k].dedup])
    /\ UNCHANGED <<envVars, startVars, loopVars, queueVars, fileVars, instVars>>

AddInit ==
    /\ Init
    /\ ~queueURL
    /\ ~dlqArn
    /\ body = [m \in Msgs |-> Body(TRUE, TRUE, F_a)]
    /\ store = {}

AddNext ==
    \/ \E obj \in AddObjs : Add(obj)
    \/ \E k \in 1..MaxAdd, err \in BOOLEAN : SendMessageCallback(k, err)

AddSpec == AddInit /\ [][AddNext]_vars

(***************************************************************************)
(* Properties.                                                             *)
(***************************************************************************)
Started(i) == inst[i].pc # "idle"

\* A body that does not parse as JSON, or whose filename is missing or empty.
Malformed(b) == ~b.parses \/ ~b.hasFilename \/ b.filename = <<>>

Invalid(i) == Started(i) /\ Malformed(body[inst[i].msg])
Valid(i) == Started(i) /\ ~Malformed(body[inst[i].msg])

\* A receive call has been issued or is scheduled.
LoopEntered == pcMain = "loop" \/ recvOutstanding > 0 \/ timers > 0

\* The instance has failed: invalid message, transcode or upload rejected.
Failed(i) ==
    \/ Invalid(i)
    \/ inst[i].xcode = "rejected"
    \/ inst[i].up = "rejected"

\* The failure was handed on: a record about the message was published
\* through SqsQueue.add, or the error was logged.
Routed(i) ==
    \/ \E k \in DOMAIN sent : sent[k].message = inst[i].msg
    \/ inst[i].logged \cap {"format", "transcode", "upload"} # {}

\* C1: an instance whose existence check reported that the artifact exists
\* has invoked neither transcodeFile nor storeFile, and has issued the delete
\* of its message (removeFromQueue).
C1_ExistsSkipsAndDeletes ==
    \A i \in Insts :
        (Valid(i) /\ inst[i].exists = "yes") =>
            /\ "transcode" \notin inst[i].called
            /\ "store" \notin inst[i].called
            /\ "remove" \in inst[i].called

C1_Witness ==
    \E i \in Insts : Valid(i) /\ inst[i].exists = "yes" /\ inst[i].pc = "done"

\* C2: an instance for a valid message whose artifact was absent, whose
\* transcode succeeded and whose upload succeeded has issued the delete of
\* its message.
C2_SuccessDeletes ==
    \A i \in Insts :
        (Valid(i) /\ inst[i].exists = "no" /\ inst[i].xcode = "resolved"
            /\ inst[i].up = "resolved") => "remove" \in inst[i].called

C4_NoUnhandledRejection == \A i \in Insts : inst[i].unhandled = 0

\* C5: once the loop has started, a new receive call is issued again and
\* again, whatever the outcomes of the receives are.
C5_LoopNeverStops ==
    \A b \in {0, 1} :
        [](((pcMain = "loop") /\ (recvEpoch = b)) => <>(recvEpoch # b))

\* Without SQS_QUEUE every receive fails; the receive outstanding here was
\* issued after at least one failed receive (the first receive has parity 1).
C5_Witness ==
    /\ ~queueURL
    /\ pcMain = "loop"
    /\ recvEpoch = 0
    /\ recvOutstanding = 1

\* C6: without SQS_QUEUE the poll loop is never entered and no receive call
\* is issued.
C6_NoQueueNoLoop == ~queueURL => ~LoopEntered

\* C7 as claimed: with SQS_QUEUE and without SQS_DLQ_ARN, startup ends in the
\* receive loop, having skipped the redrive call.
C7_DlqOptional ==
    (queueURL /\ ~dlqArn /\ pcMain \in {"rejected", "loop"}) =>
        (redrive = "none" /\ pcMain = "loop")

\* C7 as amended: with SQS_QUEUE and without SQS_DLQ_ARN, startup skips the
\* redrive call, initQueue rejects, and the receive loop is never entered.
C7_DlqRequired ==
    (queueURL /\ ~dlqArn) =>
        (redrive = "none" /\ pcMain \in {"init", "rejected"} /\ ~LoopEntered)

C7_Witness == queueURL /\ ~dlqArn /\ pcMain = "rejected"

\* C8: with SQS_DLQ_ARN set, no receive is issued before the redrive call
\* has completed, and once it has completed with an error the promise of
\* initQueue is resolved, so the loop starts.
C8_RedriveBeforeLoop ==
    dlqArn =>
        /\ LoopEntered => redrive \in {"ok", "err"}
        /\ redrive = "err" => pcMain \in {"resolved", "loop"}

C8_Witness == dlqArn /\ redrive = "err" /\ pcMain = "loop" /\ recvOutstanding = 1

\* C9: an instance whose message does not parse, or has no filename or an
\* empty one, invokes neither the existence check nor the transcoder nor the
\* uploader.
C9_InvalidStops ==
    \A i \in Insts :
        Invalid(i) =>
            inst[i].called \cap {"check", "transcode", "store"} = {}

C9_Witness ==
    \E i \in Insts :
        /\ inst[i].pc = "done"
        /\ body[inst[i].msg].parses
        /\ Invalid(i)

\* C10: storeFile is invoked only by an instance whose transcodeFile promise
\* was fulfilled; an instance whose transcode failed never invokes it.
C10_StoreOnlyAfterTranscode ==
    \A i \in Insts :
        /\ "store" \in inst[i].called => inst[i].xcode = "resolved"
        /\ inst[i].xcode = "rejected" => "store" \notin inst[i].called

C10_Witness ==
    \E i, j \in Insts :
        /\ inst[i].xcode = "rejected" /\ inst[i].pc = "done"
        /\ inst[j].xcode = "resolved" /\ "store" \in inst[j].called


\* C11: for every filename an instance transcodes, the key the existence
\* check queries is the key storeFile uploads to, so after a successful
\* upload the queried key is in the bucket.
C11_SameKey ==
    \A i \in Insts :
        /\ "store" \in inst[i].called =>
              HeadKey(Filename(i)) = UploadKey(OutputName(Filename(i)))
        /\ inst[i].up = "resolved" => HeadKey(Filename(i)) \in store

\* C12: an instance that failed (invalid message, transcode rejected, upload
\* rejected) has not called removeFromQueue.
C12_FailureLeavesMessage ==
    \A i \in Insts : Failed(i) => "remove" \notin inst[i].called

C12_Witness ==
    \E i, j \in Insts :
        /\ inst[i].pc = "done" /\ inst[i].xcode = "rejected"
        /\ inst[j].pc = "done" /\ inst[j].up = "rejected"
        /\ qstate[inst[i].msg] \in {"visible", "inflight"}

\* C13 as claimed: when the send fails, the promise of add is not rejected.
C13_AddSwallows ==
    \A k \in DOMAIN adds : adds[k].send = "err" => adds[k].promise # "rejected"

\* C13 as amended: when the send fails, the promise of add is rejected (and
\* nothing is published); when it succeeds, the promise is resolved.
C13_AddRejects ==
    \A k \in DOMAIN adds :
        /\ adds[k].send = "err" =>
              /\ adds[k].promise = "rejected"
              /\ \A n \in DOMAIN sent : sent[n].dedup # adds[k].dedup
        /\ adds[k].send = "ok" => adds[k].promise = "resolved"

C13_Witness ==
    \E k, n \in DOMAIN adds :
        /\ adds[k].send = "err" /\ adds[k].promise = "rejected"
        /\ adds[n].send = "ok" /\ adds[n].promise = "resolved"

\* An instance that is past validation and has not finished.
InFlight(i) == inst[i].pc \in {"check", "transcoding", "uploading"}

\* An instance that is transcoding or uploading.
Working(i) == inst[i].pc \in {"transcoding", "uploading"}

\* C14: the poller does not wait for a pipeline: whenever an instance is in
\* its existence check, transcode or upload, a receive is outstanding or
\* scheduled.  The witness has two instances in flight and a receive out.
C14_PollerDoesNotWait ==
    \A i \in Insts : InFlight(i) => recvOutstanding + timers >= 1

C14_Witness ==
    \E i, j \in Insts :
        /\ i < j
        /\ InFlight(i)
        /\ InFlight(j)
        /\ recvOutstanding = 1

\* C15: nothing but its own existence check gates an instance: every
\* instance that is transcoding or uploading observed exists = false, and
\* two such instances of one message work on the same local path and the
\* same store key.  The witness has two of them at the same time.
C15_NoSingleWriter ==
    \A i, j \in Insts :
        (Working(i) /\ Working(j) /\ inst[i].msg = inst[j].msg) =>
            /\ inst[i].exists = "no"
            /\ inst[j].exists = "no"
            /\ OutputName(Filename(i)) = OutputName(Filename(j))
            /\ UploadKey(OutputName(Filename(i))) = UploadKey(OutputName(Filename(j)))

C15_Witness ==
    \E i, j \in Insts :
        /\ i # j
        /\ inst[i].msg = inst[j].msg
        /\ inst[i].exists = "no" /\ inst[i].pc = "transcoding"
        /\ inst[j].exists = "no" /\ inst[j].pc = "uploading"
        /\ OutputName(Filename(i)) \in localFiles

\* C16: a failed upload never attempts fs.unlink; a successful upload
\* attempts it exactly once, and a failed unlink leaves the upload resolved.
C16_UnlinkOnSuccessOnly ==
    \A i \in Insts :
        /\ inst[i].up = "rejected" => inst[i].unlinks = 0
        /\ inst[i].up = "resolved" => inst[i].unlinks = 1
        /\ "unlink" \in inst[i].logged => inst[i].up = "resolved"

C16_Witness ==
    \E i, j \in Insts :
        /\ inst[i].up = "resolved" /\ "unlink" \in inst[i].logged
        /\ inst[j].up = "rejected" /\ inst[j].pc = "done"
        /\ "upload" \in inst[j].logged

\* C17: every step in which headObject fails, with not-found or with any
\* other error, leaves the instance with exists = false, transcodeFile
\* called, and neither removeFromQueue called nor the message deleted.
C17_HeadFailureMeansAbsent ==
    [][\A i \in Insts :
          (\E h \in {"notfound", "error"}, t, d \in BOOLEAN :
                ExistenceChecked(i, h, t, d)) =>
              /\ inst'[i].exists = "no"
              /\ "transcode" \in inst'[i].called
              /\ "remove" \notin inst'[i].called
              /\ qstate' = qstate]_vars

\* The key is in the bucket and no instance has uploaded it, so the query of
\* instance i failed for another reason than not-found.
C17_Witness ==
    \E i \in Insts :
        /\ inst[i].exists = "no"
        /\ inst[i].pc = "transcoding"
        /\ HeadKey(Filename(i)) \in store
        /\ \A j \in Insts : inst[j].up # "resolved"

\* C18: removeFromQueue is called only by an instance whose existence check
\* succeeded, on a key that is in the bucket, and a message is deleted only
\* by such an instance.
C18_DeleteOnlyAfterObserved ==
    /\ \A i \in Insts :
          "remove" \in inst[i].called =>
              /\ inst[i].exists = "yes"
              /\ HeadKey(Filename(i)) \in store
    /\ \A m \in Msgs :
          qstate[m] = "deleted" =>
              \E i \in Insts : inst[i].msg = m /\ "remove" \in inst[i].called

C18_Witness ==
    \E i, j \in Insts :
        /\ inst[i].up = "resolved"
        /\ "remove" \in inst[j].called
        /\ qstate[inst[j].msg] = "deleted"

\* C19: with the redrive policy set, a valid message all of whose deliveries
\* have transcoded and uploaded successfully is not in the dead letter queue.
C19_NeverDeadLettered ==
    \A m \in Msgs :
        (/\ ~Malformed(body[m])
         /\ redrive = "ok"
         /\ \A i \in Insts : Started(i) => inst[i].up = "resolved") =>
            qstate[m] # "dlq"

\* C20: once the loop has started exactly one receive is outstanding or
\* scheduled, and none before.
C20_OneReceive ==
    recvOutstanding + timers = (IF pcMain = "loop" THEN 1 ELSE 0)

C20_Witness ==
    /\ pcMain = "loop"
    /\ timers = 1
    /\ \E i, j \in Insts : i < j /\ InFlight(i) /\ InFlight(j)

====
